---- MODULE Spec2Model ----
(***************************************************************************)
(* The Accessor implementations of the GCS and WebHDFS services            *)
(* (core/src/services/gcs/backend.rs, core/src/services/webhdfs/backend.rs)*)
(* as a state machine.  One action is one Accessor call, from its entry to *)
(* its return; the storage service's answers are inputs of the action.     *)
(* The builders of the two backends and the conversions of Scheme          *)
(* (core/src/types/scheme.rs) are specifications of their own, SpecBuilder *)
(* and SpecScheme, over the variables builder and scheme.                  *)
(***************************************************************************)
EXTENDS Integers, Sequences, FiniteSets, TLC

VARIABLES builder, scheme, tasks, permit, backend, disable_list_batch, store,
          root_checker, call

vars ==
    <<builder, scheme, tasks, permit, backend, disable_list_batch, store,
      root_checker, call>>

\* what no Accessor call taken as one step touches: a builder, a Scheme
\* conversion, and the stat calls followed await by await
others == <<builder, scheme, tasks, permit>>

(***************************************************************************)
(* Bounds of the model.                                                    *)
(***************************************************************************)
\* most build calls made on one builder
MaxBuilds == 2

\* stat calls that run on one instance at the same time
NumTasks == 2

\* largest byte offset a read range names
MaxOffset == 3
\* largest number of parts in a multipart response that is not the
\* well-formed answer to a long batch
MaxParts == 3
\* longest batch of operations a caller hands to `batch`
MaxBatchLen == 102
\* size in bytes of every stored file
ObjSize == 2

(***************************************************************************)
(* Values.                                                                 *)
(***************************************************************************)
Backends == {"gcs", "webhdfs"}

\* Option<T>
None == [some |-> FALSE, v |-> <<>>]
Some(x) == [some |-> TRUE, v |-> x]

\* paths are strings: sequences of characters
Root == <<"/">>
FileA == <<"a">>
DirD == <<"d", "/">>
Paths == {Root, FileA, DirD}

\* str::ends_with('/')
EndsWithSlash(p) == Len(p) > 0 /\ p[Len(p)] = "/"

\* the byte value of a character
Ord(c) == CASE c = "/" -> 47 [] c = "a" -> 97 [] c = "d" -> 100

\* lexicographic order of strings, s <= t
RECURSIVE LexLeq(_, _)
LexLeq(s, t) ==
    IF s = <<>> THEN TRUE
    ELSE IF t = <<>> THEN FALSE
    ELSE IF Ord(Head(s)) < Ord(Head(t)) THEN TRUE
    ELSE IF Ord(Head(s)) > Ord(Head(t)) THEN FALSE
    ELSE LexLeq(Tail(s), Tail(t))

\* str::contains on a text given as its sequence of words
Contains(s, pat) ==
    \E i \in 0..(Len(s) - Len(pat)) :
        \A j \in 1..Len(pat) : s[i + j] = pat[j]

OutOfRangeMsg == <<"Offset", "is", "out", "of", "the", "range">>
DeniedMsg == <<"Permission", "denied">>

\* the kinds a stored path can have on the service
Kinds == {"none", "file", "dir"}

\* the states of the storage service: what each path is on it.  A GCS
\* bucket holds no object for the root.
Stores(b) ==
    { s \in [Paths -> Kinds] :
        /\ s[FileA] # "dir"
        /\ s[DirD] # "file"
        /\ b = "gcs" => s[Root] = "none" }

\* BytesRange
Ranges ==
    { [offset |-> o, size |-> z] :
        o \in {None} \cup {Some(n) : n \in 0..MaxOffset},
        z \in {None, Some(1)} }

\* BytesRange::is_full
IsFull(range) == ~range.offset.some /\ ~range.size.some

\* the range starts at or after the end of the object
PastEnd(range) == range.offset.some /\ range.offset.v >= ObjSize

(***************************************************************************)
(* Results of a call.                                                      *)
(***************************************************************************)
\* Metadata::new(mode): every field but the mode is unset
Metadata(mode) ==
    [mode |-> mode, content_length |-> None, etag |-> None,
     content_md5 |-> None, content_type |-> None, last_modified |-> None]

NoMeta == Metadata("none")

Rp(tag, kind) ==
    [tag |-> tag, kind |-> kind, meta |-> NoMeta, body |-> "none",
     results |-> <<>>, pager |-> None, ctx |-> None]

Ok == Rp("Ok", "none")
Err(kind) == Rp("Err", kind)

\* error.rs: the error made from a response that is not a success
ParseError(status) ==
    IF status = 404 THEN Err("NotFound") ELSE Err("Unexpected")

Req(op, path) == [op |-> op, path |-> path, start_after |-> None]

\* a response of the service: its status, the text of an error body, what
\* a JSON body holds (json is "bad" when the body does not parse), its
\* content type and the parts of a multipart body
Resp(status) ==
    [status |-> status, msg |-> <<>>, json |-> "none", ty |-> "none",
     boolean |-> FALSE, entries |-> <<>>, remaining |-> 0,
     ctype |-> None, parts |-> <<>>,
     object |-> [size |-> <<>>, etag |-> <<>>, updated |-> <<>>,
                 md5_hash |-> <<>>, content_type |-> <<>>]]
RespMsg(status, msg) == [Resp(status) EXCEPT !.msg = msg]
RespJson(status, json) == [Resp(status) EXCEPT !.json = json]
RespFileStatus(ty) == [Resp(200) EXCEPT !.json = "ok", !.ty = ty]
RespBoolean(status, b) == [Resp(status) EXCEPT !.json = "ok", !.boolean = b]

\* a failure of the service itself, whatever the request, and a request
\* that got no response (a transport error, written as status 0)
Faults == {Resp(500), Resp(0)}

Call(op, path, args, existed, sent, recv, rp) ==
    [op |-> op, path |-> path, args |-> args, existed |-> existed,
     sent |-> sent, recv |-> recv, rp |-> rp]

NoArgs == [none |-> TRUE]

(***************************************************************************)
(* delete                                                                  *)
(***************************************************************************)
\* the answers of the service to a delete request
DeleteResponses(b, s, p) ==
    Faults \cup
    IF b = "gcs"
    THEN (IF s[p] = "none" THEN {Resp(404)} ELSE {Resp(204)})
    ELSE (IF s[p] = "none" THEN {Resp(200), Resp(404)} ELSE {Resp(200)})

IsSuccess(status) == status >= 200 /\ status < 300

\* the store after the service answered a delete request
AfterDelete(s, p, resp) ==
    IF IsSuccess(resp.status) THEN [s EXCEPT ![p] = "none"] ELSE s

GcsDeleteRp(resp) ==
    IF IsSuccess(resp.status) \/ resp.status = 404
    THEN Ok
    ELSE ParseError(resp.status)

WebhdfsDeleteRp(resp) ==
    IF resp.status = 200 THEN Ok ELSE ParseError(resp.status)

\* delete sending its request a second time after a failure
DeleteRetrying(p) ==
    \E r1 \in DeleteResponses(backend, store, p) :
      \E r2 \in DeleteResponses(backend, store, p) :
        LET again == r1 \in Faults
            last == IF again THEN r2 ELSE r1
        IN /\ store' = AfterDelete(store, p, last)
           /\ call' = Call("delete", p, NoArgs, store[p] # "none",
                           IF again
                           THEN <<Req("DELETE", p), Req("DELETE", p)>>
                           ELSE <<Req("DELETE", p)>>,
                           IF again THEN <<r1, r2>> ELSE <<r1>>,
                           IF backend = "gcs"
                           THEN GcsDeleteRp(last)
                           ELSE WebhdfsDeleteRp(last))
           /\ UNCHANGED <<others, backend, disable_list_batch, root_checker>>

Delete(p) ==
    \E resp \in DeleteResponses(backend, store, p) :
        /\ store' = AfterDelete(store, p, resp)
        /\ call' = Call("delete", p, NoArgs, store[p] # "none",
                        <<Req("DELETE", p)>>, <<resp>>,
                        IF backend = "gcs"
                        THEN GcsDeleteRp(resp)
                        ELSE WebhdfsDeleteRp(resp))
        /\ UNCHANGED <<others, backend, disable_list_batch, root_checker>>

(***************************************************************************)
(* read                                                                    *)
(***************************************************************************)
\* the ways a service says that the range lies past the end of the object
RangeSignals(b) ==
    IF b = "gcs"
    THEN {Resp(416)}
    ELSE {Resp(416), RespMsg(403, OutOfRangeMsg)}

\* the answers of the service to a read request
ReadResponses(b, s, p, range) ==
    Faults \cup {RespMsg(403, DeniedMsg)} \cup
    IF s[p] = "none" THEN {Resp(404)}
    ELSE IF PastEnd(range) THEN RangeSignals(b)
    ELSE {Resp(200), Resp(206)}

OkBody(body) == [Ok EXCEPT !.body = body]

GcsReadRp(resp) ==
    IF IsSuccess(resp.status) THEN OkBody("stream")
    ELSE IF resp.status = 416 THEN OkBody("empty")
    ELSE ParseError(resp.status)

\* WebhdfsBackend::read without its 403 arm: the status falls to `_`
WebhdfsReadRpNo403(resp) ==
    CASE resp.status \in {200, 206} -> OkBody("stream")
      [] resp.status = 416 -> OkBody("empty")
      [] OTHER -> ParseError(resp.status)

WebhdfsReadRp(resp) ==
    CASE resp.status \in {200, 206} -> OkBody("stream")
      [] resp.status = 403 ->
            IF Contains(resp.msg, <<"out", "of", "the", "range">>)
            THEN OkBody("empty")
            ELSE ParseError(resp.status)
      [] resp.status = 416 -> OkBody("empty")
      [] OTHER -> ParseError(resp.status)

\* webhdfs_open_request refuses a suffix range before any request is made
SuffixRange(range) ==
    ~IsFull(range) /\ ~range.offset.some /\ range.size.some

Read(p, range) ==
    /\ IF backend = "webhdfs" /\ SuffixRange(range)
       THEN call' = Call("read", p, [range |-> range], store[p] # "none",
                         <<>>, <<>>, Err("Unsupported"))
       ELSE \E resp \in ReadResponses(backend, store, p, range) :
                call' = Call("read", p, [range |-> range], store[p] # "none",
                             <<Req("GET", p)>>, <<resp>>,
                             IF backend = "gcs"
                             THEN GcsReadRp(resp)
                             ELSE WebhdfsReadRp(resp))
    /\ UNCHANGED <<others, backend, disable_list_batch, store, root_checker>>

(***************************************************************************)
(* create_dir                                                              *)
(***************************************************************************)
\* what a handler did: the store it left, the requests it sent, the
\* responses it got and its result
Outcome(s, sent, recv, rp) ==
    [store |-> s, sent |-> sent, recv |-> recv, rp |-> rp]

\* the kind of entry a create request makes at a path
CreatedKind(p) == IF EndsWithSlash(p) THEN "dir" ELSE "file"

\* the answers of the service to a create request
CreateDirResponses(b) ==
    Faults \cup
    IF b = "gcs"
    THEN {Resp(200)}
    ELSE {RespBoolean(200, TRUE), RespBoolean(200, FALSE), RespJson(200, "bad")}

\* the store after the service answered a create request
AfterCreate(b, s, p, resp) ==
    IF /\ IsSuccess(resp.status)
       /\ b = "webhdfs" => (resp.json = "ok" /\ resp.boolean)
       /\ ~(b = "gcs" /\ p = Root)
    THEN [s EXCEPT ![p] = CreatedKind(p)]
    ELSE s

GcsCreateDirRp(resp) ==
    IF IsSuccess(resp.status) THEN Ok ELSE ParseError(resp.status)

\* WebhdfsBackend::create_dir taking StatusCode::CREATED alone for success
WebhdfsCreateDirRpCreatedOnly(resp) ==
    IF resp.status = 201
    THEN IF resp.json # "ok" THEN Err("Unexpected")
         ELSE IF resp.boolean THEN Ok
         ELSE Err("Unexpected")
    ELSE ParseError(resp.status)

WebhdfsCreateDirRp(resp) ==
    IF resp.status \in {201, 200}
    THEN IF resp.json # "ok" THEN Err("Unexpected")
         ELSE IF resp.boolean THEN Ok
         ELSE Err("Unexpected")
    ELSE ParseError(resp.status)

CreateDirOutcomes(b, s, p) ==
    { Outcome(AfterCreate(b, s, p, resp), <<Req("PUT", p)>>, <<resp>>,
              IF b = "gcs" THEN GcsCreateDirRp(resp)
              ELSE WebhdfsCreateDirRp(resp)) :
        resp \in CreateDirResponses(b) }

CreateDir(p) ==
    \E o \in CreateDirOutcomes(backend, store, p) :
        /\ store' = o.store
        /\ call' = Call("create_dir", p, NoArgs, store[p] # "none",
                        o.sent, o.recv, o.rp)
        /\ UNCHANGED <<others, backend, disable_list_batch, root_checker>>

(***************************************************************************)
(* stat                                                                    *)
(***************************************************************************)
OkMeta(mode) == [Ok EXCEPT !.meta = Metadata(mode)]

\* GetObjectJsonResponse of an object that reports every field; a field the
\* body leaves out is the empty string (serde default)
FullObject ==
    [size |-> <<"5", "6">>, etag |-> <<"CKWasoTgyPkCEAE=">>,
     updated |-> <<"2022-08-15T11:33:34.866Z">>,
     md5_hash |-> <<"fHcEH1vPwA6eTPqxuasXcg==">>,
     content_type |-> <<"image/png">>]

ObjectFields == DOMAIN FullObject

\* the object with only some of its fields in the body
Reporting(obj, fields) ==
    [f \in ObjectFields |-> IF f \in fields THEN obj[f] ELSE <<>>]

\* the JSON bodies that answer a metadata request for an object: with any
\* of the fields left out, and with a size or a date that is not one
Objects ==
    {Reporting(FullObject, fields) : fields \in SUBSET ObjectFields}
        \cup {[FullObject EXCEPT !.size = <<"5", "x">>],
              [FullObject EXCEPT !.updated = <<"yesterday">>]}

RespObject(obj) == [Resp(200) EXCEPT !.json = "ok", !.ty = "file", !.object = obj]

\* the decimal digits and their values
DigitValue ==
    [d \in {"0", "1", "2", "3", "4", "5", "6", "7", "8", "9"} |->
        CHOOSE n \in 0..9 : ToString(n) = d]

\* str::parse::<u64>: the number a string of digits writes, or an error
IsNumber(s) == s # <<>> /\ \A i \in 1..Len(s) : s[i] \in DOMAIN DigitValue

RECURSIVE ParseU64(_)
ParseU64(s) ==
    IF s = <<>> THEN 0
    ELSE 10 * ParseU64(SubSeq(s, 1, Len(s) - 1)) + DigitValue[s[Len(s)]]

\* parse_datetime_from_rfc3339 accepts the string
IsRfc3339(s) == s = FullObject.updated

\* the Metadata stat makes of a parsed body, or the error it ends with
GcsMetadata(p, obj) ==
    IF ~IsNumber(obj.size) THEN Err("Unexpected")
    ELSE IF ~IsRfc3339(obj.updated) THEN Err("Unexpected")
    ELSE [Ok EXCEPT !.meta =
            [mode |-> IF EndsWithSlash(p) THEN "DIR" ELSE "FILE",
             etag |-> Some(obj.etag),
             content_md5 |-> Some(obj.md5_hash),
             content_length |-> Some(ParseU64(obj.size)),
             content_type |-> IF obj.content_type # <<>>
                              THEN Some(obj.content_type) ELSE None,
             last_modified |-> Some(obj.updated)]]

\* the answers of GCS to a request for the metadata of an object
GetObjectMetadataResponses(s, p) ==
    Faults \cup
    IF s[p] = "none" THEN {Resp(404)}
    ELSE {RespObject(obj) : obj \in Objects} \cup {RespJson(200, "bad")}

\* OpStat: the match conditions of the call
StatArgs ==
    { [if_match |-> m, if_none_match |-> n] :
        m \in {None, Some(<<"e">>)}, n \in {None, Some(<<"e">>)} }

\* the answers of the service to a request for the metadata of a path
GetMetadataResponses(s, p) ==
    Faults \cup
    IF s[p] = "none" THEN {Resp(404)}
    ELSE {RespFileStatus(s[p]), RespJson(200, "bad")}

\* stat taking a success response for an object without reading its body
GcsStatRpUnread(p, resp) ==
    IF IsSuccess(resp.status)
    THEN OkMeta(IF EndsWithSlash(p) THEN "DIR" ELSE "FILE")
    ELSE IF resp.status = 404 /\ EndsWithSlash(p) THEN OkMeta("DIR")
    ELSE ParseError(resp.status)

GcsStatRp(p, resp) ==
    IF IsSuccess(resp.status)
    THEN IF resp.json # "ok" THEN Err("Unexpected")
         ELSE GcsMetadata(p, resp.object)
    ELSE IF resp.status = 404 /\ EndsWithSlash(p) THEN OkMeta("DIR")
    ELSE ParseError(resp.status)

GcsStatOutcomes(s, p) ==
    IF p = Root
    THEN {Outcome(s, <<>>, <<>>, OkMeta("DIR"))}
    ELSE { Outcome(s, <<Req("GET", p)>>, <<resp>>, GcsStatRp(p, resp)) :
             resp \in GetObjectMetadataResponses(s, p) }

\* WebhdfsBackend::check_root: Ok, or the error it ends with
CheckRootOutcomes(s) ==
    UNION { CASE resp.status = 200 ->
                   {Outcome(s, <<Req("GETFILESTATUS", Root)>>, <<resp>>,
                            IF resp.json # "ok" THEN Err("Unexpected")
                            ELSE IF resp.ty = "file" THEN Err("ConfigInvalid")
                            ELSE Ok)}
              [] resp.status = 404 ->
                   { Outcome(o.store,
                             <<Req("GETFILESTATUS", Root)>> \o o.sent,
                             <<resp>> \o o.recv, o.rp) :
                       o \in CreateDirOutcomes("webhdfs", s, Root) }
              [] OTHER ->
                   {Outcome(s, <<Req("GETFILESTATUS", Root)>>, <<resp>>,
                            ParseError(resp.status))}
            : resp \in GetMetadataResponses(s, Root) }

WebhdfsStatRp(resp) ==
    IF resp.status = 200
    THEN IF resp.json # "ok" THEN Err("Unexpected")
         ELSE IF resp.ty = "dir" THEN OkMeta("DIR")
         ELSE OkMeta("FILE")
    ELSE ParseError(resp.status)

\* root_checker.get_or_try_init: the check runs unless an earlier one passed
RootCheckOutcomes(s, checked) ==
    IF checked THEN {Outcome(s, <<>>, <<>>, Ok)} ELSE CheckRootOutcomes(s)

\* a cell that is set whether or not its initialiser succeeded
OnceCellAlwaysSet(cell, rp) == TRUE

\* OnceCell::get_or_try_init: the cell is set when the initialiser succeeds
\* and stays as it was when the initialiser fails
OnceCellAfter(cell, rp) == IF rp.tag = "Ok" THEN TRUE ELSE cell

Stat(p, args) ==
    IF backend = "gcs"
    THEN \E o \in GcsStatOutcomes(store, p) :
            /\ call' = Call("stat", p, args, store[p] # "none",
                            o.sent, o.recv, o.rp)
            /\ UNCHANGED <<others, backend, disable_list_batch, store, root_checker>>
    ELSE \E c \in RootCheckOutcomes(store, root_checker) :
            /\ store' = c.store
            /\ UNCHANGED <<others, backend, disable_list_batch>>
            /\ root_checker' = OnceCellAfter(root_checker, c.rp)
            /\ IF c.rp.tag # "Ok"
               THEN call' = Call("stat", p, args, store[p] # "none",
                                 c.sent, c.recv, c.rp)
               ELSE \E resp \in GetMetadataResponses(c.store, p) :
                       call' = Call("stat", p, args, store[p] # "none",
                                    c.sent \o <<Req("GETFILESTATUS", p)>>,
                                    c.recv \o <<resp>>,
                                    WebhdfsStatRp(resp))

(***************************************************************************)
(* list                                                                    *)
(***************************************************************************)
\* OpList
ListArgs ==
    { [recursive |-> r, limit |-> l, start_after |-> sa] :
        r \in BOOLEAN, l \in {None, Some(1)},
        sa \in {None, Some(<<>>), Some(FileA)} }

\* OpList::default()
OpListDefault == [recursive |-> FALSE, limit |-> None, start_after |-> None]

\* str::trim_end_matches('/')
RECURSIVE TrimEndSlash(_)
TrimEndSlash(p) ==
    IF EndsWithSlash(p) THEN TrimEndSlash(SubSeq(p, 1, Len(p) - 1)) ELSE p

\* the stored path a listed directory name stands for
ListedKey(dir) == CHOOSE p \in Paths : TrimEndSlash(p) = dir

\* the names under a directory of the service: all stored paths lie
\* directly under the root
Children(s, dir) ==
    IF dir = <<>> THEN {p \in Paths \ {Root} : s[p] # "none"} ELSE {}

\* a set of names as the sequence in lexicographic order
RECURSIVE Sorted(_)
Sorted(S) ==
    IF S = {} THEN <<>>
    ELSE LET m == CHOOSE x \in S : \A y \in S : LexLeq(x, y)
         IN <<m>> \o Sorted(S \ {m})

\* the names the service lists for a request: those after the key the
\* request carries
Listed(s, req) ==
    Sorted({ e \in Children(s, req.path) :
               req.start_after.some => ~LexLeq(e, req.start_after.v) })

\* number of entries the service puts in one partial listing
PageSize == 1

Prefix(q, n) == SubSeq(q, 1, IF n < Len(q) THEN n ELSE Len(q))

RespListing(entries, remaining) ==
    [Resp(200) EXCEPT !.json = "ok", !.entries = entries,
                      !.remaining = remaining]

\* the answers of the service to a listing request, in pages or whole
ListResponses(s, req) ==
    Faults \cup
    IF s[ListedKey(req.path)] = "none" THEN {Resp(404)}
    ELSE {RespJson(200, "bad"),
          IF req.op = "LISTSTATUS_BATCH"
          THEN LET all == Listed(s, req)
                   page == Prefix(all, PageSize)
               IN RespListing(page, Len(all) - Len(page))
          ELSE RespListing(Listed(s, req), 0)}

\* webhdfs_list_status_batch_request
WebhdfsListStatusBatchRequest(path, args) ==
    [op |-> "LISTSTATUS_BATCH", path |-> path,
     start_after |-> IF args.start_after.some /\ args.start_after.v # <<>>
                     THEN args.start_after
                     ELSE None]

\* webhdfs_list_status_request
WebhdfsListStatusRequest(path) == Req("LISTSTATUS", path)

Pager(path, recursive, limit, start_after, entries, remaining) ==
    Some([path |-> path, recursive |-> recursive, limit |-> limit,
          start_after |-> start_after, entries |-> entries,
          remaining_entries |-> remaining])

OkPager(pager) == [Ok EXCEPT !.pager = pager]

\* GcsPager::new(core, path, recursive, limit, start_after)
GcsListRp(p, args) ==
    OkPager(Pager(p, args.recursive, args.limit, args.start_after, <<>>, 0))

\* WebhdfsBackend::list without its NOT_FOUND arms
WebhdfsListRpNo404(path, resp) ==
    CASE resp.status = 200 ->
            IF resp.json # "ok" THEN Err("Unexpected")
            ELSE OkPager(Pager(path, FALSE, None, None,
                               resp.entries, resp.remaining))
      [] OTHER -> ParseError(resp.status)

\* WebhdfsPager::new(backend, path, file_statuses), with
\* set_remaining_entries in the batch mode
WebhdfsListRp(path, resp) ==
    CASE resp.status = 200 ->
            IF resp.json # "ok" THEN Err("Unexpected")
            ELSE OkPager(Pager(path, FALSE, None, None,
                               resp.entries, resp.remaining))
      [] resp.status = 404 ->
            OkPager(Pager(path, FALSE, None, None, <<>>, 0))
      [] OTHER -> ParseError(resp.status)

\* the request WebhdfsBackend::list sends
WebhdfsListRequest(path, args, no_batch) ==
    IF ~no_batch
    THEN WebhdfsListStatusBatchRequest(path, OpListDefault)
    ELSE WebhdfsListStatusRequest(path)

List(p, args) ==
    /\ IF backend = "gcs"
       THEN call' = Call("list", p, args, store[p] # "none", <<>>, <<>>,
                         GcsListRp(p, args))
       ELSE IF args.recursive
       THEN call' = Call("list", p, args, store[p] # "none", <<>>, <<>>,
                         Err("Unsupported"))
       ELSE LET path == TrimEndSlash(p)
                req == WebhdfsListRequest(path, args, disable_list_batch)
            IN \E resp \in ListResponses(store, req) :
                  call' = Call("list", p, args, store[p] # "none",
                               <<req>>, <<resp>>, WebhdfsListRp(path, resp))
    /\ UNCHANGED <<others, backend, disable_list_batch, store, root_checker>>

(***************************************************************************)
(* batch (GCS)                                                             *)
(***************************************************************************)
\* Capability::batch_max_operations of GcsBackend::info
BatchMaxOperations == 100

\* the number of operations above which GcsBackend::batch refuses
BatchLimit == 100

\* the paths of a long batch
LongBatch(n) == [i \in 1..n |-> IF i % 2 = 1 THEN FileA ELSE DirD]

\* the batches a caller hands in: short ones, and long ones around the limit
BatchInputs ==
    {<<>>, <<FileA>>, <<FileA, DirD>>, <<DirD, FileA>>}
        \cup {LongBatch(n) : n \in (BatchLimit - 1)..MaxBatchLen}

\* the operations of a batch on which the service itself fails
PartFaults(n) == IF n <= MaxParts THEN SUBSET (1..n) ELSE {{}, {1}}

\* the status of the sub-operation the service performs on the i-th path
PartStatus(s, paths, i, failing) ==
    IF i \in failing THEN 500
    ELSE IF s[paths[i]] = "none" THEN 404
    ELSE 204

\* the responses-in-order a multipart body can hold, each named by the
\* index of the operation it answers: the well-formed one, and for a short
\* batch every order, omission and repetition
Wires(n) ==
    {[k \in 1..n |-> k]}
        \cup IF n <= MaxParts /\ n > 0
             THEN UNION {[1..k -> 1..n] : k \in 0..MaxParts}
             ELSE {}

MultipartType == <<"multipart/mixed; boundary=", "batch_boundary">>
JsonType == <<"application/json">>

RespMultipart(parts) ==
    [Resp(200) EXCEPT !.ctype = Some(MultipartType), !.parts = parts]
RespType(ctype) == [Resp(200) EXCEPT !.ctype = ctype]

\* the answers of the service to a batch request
BatchResponses(s, paths) ==
    Faults \cup {Resp(400), RespType(None), RespType(Some(JsonType))} \cup
    { RespMultipart([k \in 1..Len(w) |->
                       [id |-> w[k],
                        status |-> PartStatus(s, paths, w[k], failing)]]) :
        w \in Wires(Len(paths)), failing \in PartFaults(Len(paths)) }

\* the store after the service answered a batch request: every operation
\* in a response part was performed
AfterBatch(s, paths, resp) ==
    [p \in Paths |->
        IF \E k \in 1..Len(resp.parts) :
              /\ paths[resp.parts[k].id] = p
              /\ IsSuccess(resp.parts[k].status)
        THEN "none"
        ELSE s[p]]

\* str::strip_prefix on a text given as its sequence of tokens
StripPrefix(text, prefix) ==
    IF Len(text) >= 1 /\ text[1] = prefix THEN Some(Tail(text)) ELSE None

\* one (path, result) pair of RpBatch
BatchedResult(path, status) ==
    [path |-> path,
     rp |-> IF IsSuccess(status) \/ status = 404
            THEN Ok
            ELSE ParseError(status)]

\* indexing paths[i] beyond the end of the vector aborts the call
Panic == Rp("Panic", "none")

\* the loop over the parts of the multipart response
GcsBatchResults(paths, parts) ==
    IF Len(parts) > Len(paths)
    THEN Panic
    ELSE [Ok EXCEPT !.results =
            [i \in 1..Len(parts) |-> BatchedResult(paths[i], parts[i].status)]]

GcsBatchRp(paths, resp) ==
    IF resp.status = 200
    THEN IF ~resp.ctype.some THEN Err("Unexpected")
         ELSE IF ~StripPrefix(resp.ctype.v, "multipart/mixed; boundary=").some
         THEN Err("Unexpected")
         ELSE GcsBatchResults(paths, resp.parts)
    ELSE ParseError(resp.status)

\* the check of the operation count, off by one
GcsBatchRejectsAtLimit(n) == n >= BatchLimit

\* ops.len() > 100
GcsBatchRejects(n) == n > BatchLimit

Batch(paths) ==
    /\ backend = "gcs"
    /\ IF GcsBatchRejects(Len(paths))
       THEN /\ call' = Call("batch", Root, [ops |-> paths], FALSE, <<>>, <<>>,
                            [Err("Unsupported") EXCEPT
                                !.ctx = Some(<<"length", Len(paths)>>)])
            /\ UNCHANGED store
       ELSE \E resp \in BatchResponses(store, paths) :
               /\ store' = AfterBatch(store, paths, resp)
               /\ call' = Call("batch", Root, [ops |-> paths], FALSE,
                               <<Req("BATCH", Root)>>, <<resp>>,
                               GcsBatchRp(paths, resp))
    /\ UNCHANGED <<others, backend, disable_list_batch, root_checker>>

(***************************************************************************)
(* info: the Capability each backend advertises, as the set of its flags   *)
(***************************************************************************)
GcsCapability ==
    {"create_dir", "stat", "stat_with_if_match", "stat_with_if_none_match",
     "read", "read_can_next", "read_with_range", "read_with_if_match",
     "read_with_if_none_match", "write", "write_can_empty", "write_can_multi",
     "write_with_content_type", "delete", "copy", "list", "list_with_limit",
     "list_with_start_after", "list_without_recursive", "list_with_recursive",
     "batch", "presign", "presign_stat", "presign_read", "presign_write"}

WebhdfsCapability ==
    {"stat", "read", "read_can_next", "read_with_range", "write",
     "create_dir", "delete", "list", "list_without_recursive"}

Capability(b) == IF b = "gcs" THEN GcsCapability ELSE WebhdfsCapability

(***************************************************************************)
(* Scheme                                                                  *)
(***************************************************************************)
\* a string: its text in lower case and the positions written in upper case
Str(text, caps) == [text |-> text, caps |-> caps]

\* a string literal of the source, written in lower case
Lit(text) == Str(text, {})

\* str::to_lowercase
Lower(s) == [s EXCEPT !.caps = {}]

\* one match arm of from_str: the names it matches and the variant it gives
Arm(patterns, variant) == [patterns |-> patterns, variant |-> variant]

\* the arms of from_str that name a variant, in the order of the source
FromStrArms ==
    <<
       Arm(<<"atomicserver">>, "Atomicserver"), Arm(<<"azblob">>, "Azblob"),
       Arm(<<"azdls", "azdfs", "abfs">>, "Azdls"),
       Arm(<<"cacache">>, "Cacache"),
       Arm(<<"cloudflare_kv">>, "CloudflareKv"), Arm(<<"cos">>, "Cos"),
       Arm(<<"d1">>, "D1"), Arm(<<"dashmap">>, "Dashmap"),
       Arm(<<"dropbox">>, "Dropbox"), Arm(<<"etcd">>, "Etcd"),
       Arm(<<"dbfs">>, "Dbfs"), Arm(<<"fs">>, "Fs"), Arm(<<"gcs">>, "Gcs"),
       Arm(<<"gdrive">>, "Gdrive"), Arm(<<"ghac">>, "Ghac"),
       Arm(<<"gridfs">>, "Gridfs"), Arm(<<"hdfs">>, "Hdfs"),
       Arm(<<"http", "https">>, "Http"), Arm(<<"ftp", "ftps">>, "Ftp"),
       Arm(<<"ipfs", "ipns">>, "Ipfs"), Arm(<<"ipmfs">>, "Ipmfs"),
       Arm(<<"libsql">>, "Libsql"), Arm(<<"memcached">>, "Memcached"),
       Arm(<<"memory">>, "Memory"), Arm(<<"mysql">>, "Mysql"),
       Arm(<<"sqlite">>, "Sqlite"), Arm(<<"mini_moka">>, "MiniMoka"),
       Arm(<<"moka">>, "Moka"), Arm(<<"obs">>, "Obs"),
       Arm(<<"onedrive">>, "Onedrive"), Arm(<<"persy">>, "Persy"),
       Arm(<<"postgresql">>, "Postgresql"), Arm(<<"redb">>, "Redb"),
       Arm(<<"redis">>, "Redis"), Arm(<<"rocksdb">>, "Rocksdb"),
       Arm(<<"s3">>, "S3"), Arm(<<"sftp">>, "Sftp"), Arm(<<"sled">>, "Sled"),
       Arm(<<"supabase">>, "Supabase"), Arm(<<"swift">>, "Swift"),
       Arm(<<"oss">>, "Oss"), Arm(<<"vercel_artifacts">>, "VercelArtifacts"),
       Arm(<<"webdav">>, "Webdav"), Arm(<<"webhdfs">>, "Webhdfs"),
       Arm(<<"tikv">>, "Tikv"), Arm(<<"azfile">>, "Azfile"),
       Arm(<<"mongodb">>, "Mongodb")
    >>

\* the arms of From<Scheme> for &'static str that name a variant
IntoStrNames ==
    "Atomicserver" :> "atomicserver" @@ "Azblob" :> "azblob" @@
    "Azdls" :> "azdls" @@ "Cacache" :> "cacache" @@
    "CloudflareKv" :> "cloudflare_kv" @@ "Cos" :> "cos" @@ "D1" :> "d1" @@
    "Dashmap" :> "dashmap" @@ "Etcd" :> "etcd" @@ "Dbfs" :> "dbfs" @@ "Fs" :> "fs" @@
    "Gcs" :> "gcs" @@ "Ghac" :> "ghac" @@ "Gridfs" :> "gridfs" @@ "Hdfs" :> "hdfs" @@
    "Http" :> "http" @@ "Foundationdb" :> "foundationdb" @@ "Ftp" :> "ftp" @@
    "Ipfs" :> "ipfs" @@ "Ipmfs" :> "ipmfs" @@ "Libsql" :> "libsql" @@
    "Memcached" :> "memcached" @@ "Memory" :> "memory" @@
    "MiniMoka" :> "mini_moka" @@ "Moka" :> "moka" @@ "Obs" :> "obs" @@
    "Onedrive" :> "onedrive" @@ "Persy" :> "persy" @@
    "Postgresql" :> "postgresql" @@ "Mysql" :> "mysql" @@ "Gdrive" :> "gdrive" @@
    "Dropbox" :> "dropbox" @@ "Redis" :> "redis" @@ "Rocksdb" :> "rocksdb" @@
    "S3" :> "s3" @@ "Sftp" :> "sftp" @@ "Sled" :> "sled" @@
    "Supabase" :> "supabase" @@ "Swift" :> "swift" @@
    "VercelArtifacts" :> "vercel_artifacts" @@ "Oss" :> "oss" @@
    "Webdav" :> "webdav" @@ "Webhdfs" :> "webhdfs" @@ "Redb" :> "redb" @@
    "Tikv" :> "tikv" @@ "Azfile" :> "azfile" @@ "Sqlite" :> "sqlite" @@
    "Mongodb" :> "mongodb"

\* a Scheme: a well-known variant, or Custom carrying a string
Variant(name) == [variant |-> name, v |-> Lit("")]
Custom(s) == [variant |-> "Custom", v |-> s]

\* Result<Scheme>
OkScheme(v) == [tag |-> "Ok", v |-> v]
ErrScheme == [tag |-> "Err", v |-> Variant("none")]

\* the arms whose patterns hold the string
Matching(s) ==
    {i \in 1..Len(FromStrArms) :
        \E k \in 1..Len(FromStrArms[i].patterns) :
            Lit(FromStrArms[i].patterns[k]) = s}

\* the variant of the first arm that matches the string
Matched(s) ==
    Variant(FromStrArms[CHOOSE i \in Matching(s) :
                            \A j \in Matching(s) : i <= j].variant)

\* from_str matching its input as it is written
FromStrNoLowercase(str) ==
    IF Matching(str) # {} THEN OkScheme(Matched(str)) ELSE OkScheme(Custom(str))

\* from_str refusing a string that names no variant
FromStrRejectsUnknown(str) ==
    LET s == Lower(str)
    IN IF Matching(s) # {} THEN OkScheme(Matched(s)) ELSE ErrScheme

\* Scheme::from_str
FromStr(str) ==
    LET s == Lower(str)
    IN IF Matching(s) # {} THEN OkScheme(Matched(s)) ELSE OkScheme(Custom(s))

\* the string form with the names of Mysql and Sqlite taken for each other
IntoStrMysqlAsSqlite(v) ==
    IF v.variant = "Custom" THEN v.v
    ELSE IF v.variant = "Mysql" THEN Lit("sqlite")
    ELSE IF v.variant = "Sqlite" THEN Lit("mysql")
    ELSE Lit(IntoStrNames[v.variant])

\* From<Scheme> for &'static str
IntoStr(v) ==
    IF v.variant = "Custom" THEN v.v ELSE Lit(IntoStrNames[v.variant])

\* the texts parsed: every name from_str matches, a variant's name it does
\* not match, a name of no variant, and the empty string
SchemeTexts ==
    UNION {{FromStrArms[i].patterns[k] : k \in 1..Len(FromStrArms[i].patterns)} :
              i \in 1..Len(FromStrArms)}
        \cup {"foundationdb", "myfs", ""}

\* the ways a text is written: in lower case, or with a capital first letter
Writings(text) ==
    IF text = "" THEN {Lit(text)} ELSE {Lit(text), Str(text, {1})}

\* no conversion is under way
IdleScheme ==
    [pc |-> "idle", s |-> Lit(""), t |-> Lit(""), variant |-> Variant("none"),
     parsed_s |-> ErrScheme, parsed_t |-> ErrScheme, shown |-> Lit("")]

\* two strings that are equal after lowercasing are handed to from_str
SchemeInputs ==
    UNION {{[IdleScheme EXCEPT !.pc = "input", !.s = s, !.t = t] :
                s \in Writings(x), t \in Writings(x)} : x \in SchemeTexts}

\* a well-known variant is about to be converted to its string form
SchemeVariants ==
    {[IdleScheme EXCEPT !.pc = "variant", !.variant = Variant(name)] :
        name \in DOMAIN IntoStrNames}

\* the variant is converted to its string form
SchemeVariantIntoStr ==
    /\ scheme.pc = "variant"
    /\ scheme' = [scheme EXCEPT !.pc = "named",
                                !.shown = IntoStr(scheme.variant)]
    /\ UNCHANGED <<builder, tasks, permit, backend, disable_list_batch, store,
                   root_checker, call>>

\* the string form of the variant is parsed
SchemeStrFromStr ==
    /\ scheme.pc = "named"
    /\ scheme' = [scheme EXCEPT !.pc = "reparsed",
                                !.parsed_s = FromStr(scheme.shown)]
    /\ UNCHANGED <<builder, tasks, permit, backend, disable_list_batch, store,
                   root_checker, call>>

\* both strings are parsed
SchemeFromStr ==
    /\ scheme.pc = "input"
    /\ scheme' = [scheme EXCEPT !.pc = "parsed",
                                !.parsed_s = FromStr(scheme.s),
                                !.parsed_t = FromStr(scheme.t)]
    /\ UNCHANGED <<builder, tasks, permit, backend, disable_list_batch, store,
                   root_checker, call>>

\* the Scheme parsed from the first string is converted back to a string
SchemeIntoStr ==
    /\ scheme.pc = "parsed"
    /\ scheme.parsed_s.tag = "Ok"
    /\ scheme' = [scheme EXCEPT !.pc = "shown",
                                !.shown = IntoStr(scheme.parsed_s.v)]
    /\ UNCHANGED <<builder, tasks, permit, backend, disable_list_batch, store,
                   root_checker, call>>

(***************************************************************************)
(* Builders                                                                *)
(***************************************************************************)
\* a configuration key that is absent from the map, or has one of the values
Entry(values) == {None} \cup {Some(v) : v \in values}

\* the string maps handed to from_map, each a record of its keys: the keys
\* of both builders and a key of neither
Maps ==
    [root : Entry({<<>>, <<"r">>}),
     bucket : Entry({<<>>, <<"b">>}),
     endpoint : Entry({<<"e", "/">>}),
     credential : Entry({<<"c">>}),
     scope : Entry({<<"s">>}),
     predefined_acl : Entry({<<"acl">>}),
     default_storage_class : Entry({<<"cls">>}),
     delegation : Entry({<<"t">>}),
     disable_list_batch : Entry({<<"true">>, <<"false">>}),
     foo : Entry({<<"x">>})]

\* a setter that keeps the field when it is handed the empty string
SetNonEmpty(old, v) == IF v # <<>> THEN Some(v) ELSE old

\* map.get(key).map(|v| setter(v)) on one field
FromKey(m, key, old) == IF m[key].some THEN SetNonEmpty(old, m[key].v) ELSE old

\* GcsBuilder::default()
GcsBuilderDefault ==
    [root |-> None, bucket |-> <<>>, endpoint |-> None, scope |-> None,
     service_account |-> None, credential |-> None, credential_path |-> None,
     http_client |-> None, customed_token_loader |-> None,
     predefined_acl |-> None, default_storage_class |-> None]

\* GcsBuilder::from_map; bucket() stores whatever it is handed
GcsFromMap(m) ==
    [GcsBuilderDefault EXCEPT
        !.root = FromKey(m, "root", @),
        !.bucket = IF m.bucket.some THEN m.bucket.v ELSE @,
        !.endpoint = FromKey(m, "endpoint", @),
        !.credential = FromKey(m, "credential", @),
        !.scope = FromKey(m, "scope", @),
        !.predefined_acl = FromKey(m, "predefined_acl", @),
        !.default_storage_class = FromKey(m, "default_storage_class", @)]

\* WebhdfsBuilder::default()
WebhdfsBuilderDefault ==
    [root |-> None, endpoint |-> None, delegation |-> None,
     disable_list_batch |-> FALSE]

\* WebhdfsBuilder::from_map; endpoint() trims the trailing slashes
WebhdfsFromMap(m) ==
    [WebhdfsBuilderDefault EXCEPT
        !.root = FromKey(m, "root", @),
        !.endpoint = IF m.endpoint.some /\ m.endpoint.v # <<>>
                     THEN Some(TrimEndSlash(m.endpoint.v)) ELSE @,
        !.delegation = FromKey(m, "delegation", @),
        !.disable_list_batch =
            IF m.disable_list_batch = Some(<<"true">>) THEN TRUE ELSE @]

\* from_map giving the default builder for a map that holds a key the
\* builder does not know
FromMapRejectsUnknown(kind, m) ==
    IF kind = "gcs"
    THEN IF m.foo.some \/ m.delegation.some \/ m.disable_list_batch.some
         THEN GcsBuilderDefault ELSE GcsFromMap(m)
    ELSE IF m.foo.some \/ m.bucket.some \/ m.credential.some \/ m.scope.some
            \/ m.predefined_acl.some \/ m.default_storage_class.some
         THEN WebhdfsBuilderDefault ELSE WebhdfsFromMap(m)

\* Builder::from_map of either builder
FromMap(kind, m) == IF kind = "gcs" THEN GcsFromMap(m) ELSE WebhdfsFromMap(m)

\* normalize_root: a leading slash, and no trailing slash unless root
NormalizeRoot(r) ==
    LET trimmed == TrimEndSlash(r)
    IN IF trimmed = <<>> THEN Root
       ELSE IF trimmed[1] = "/" THEN trimmed ELSE <<"/">> \o trimmed

\* Option::unwrap_or / unwrap_or_default
UnwrapOr(opt, default) == IF opt.some THEN opt.v ELSE default

\* Result<Accessor> of build, with the builder as build leaves it
Built(b, tag, kind, acc) == [b |-> b, tag |-> tag, kind |-> kind, acc |-> acc]
NoAcc == [root |-> <<>>]

\* HttpClient::new(): a client, or an error that is not about configuration
HttpClientNew ==
    {[tag |-> "Ok", kind |-> ""], [tag |-> "Err", kind |-> "Unexpected"]}

DEFAULT_GCS_ENDPOINT == <<"https", "://", "storage.googleapis.com">>
DEFAULT_GCS_SCOPE ==
    <<"https", "://", "www.googleapis.com/auth/devstorage.read_write">>
WEBHDFS_DEFAULT_ENDPOINT == <<"http", "://", "127.0.0.1:9870">>

\* a bucket check that finds every bucket configured
BucketNeverEmpty(b) == FALSE

\* self.bucket.is_empty()
BucketIsEmpty(b) == b.bucket = <<>>

\* GcsBuilder::build
GcsBuild(b, client) ==
    LET root == NormalizeRoot(UnwrapOr(b.root, <<>>))
        b1 == [b EXCEPT !.root = None]
        b2 == [b1 EXCEPT !.http_client = None]
        b3 == [b2 EXCEPT !.customed_token_loader = None]
    IN IF BucketIsEmpty(b)
       THEN Built(b1, "Err", "ConfigInvalid", NoAcc)
       ELSE IF ~b.http_client.some /\ client.tag = "Err"
       THEN Built(b2, "Err", client.kind, NoAcc)
       ELSE Built(b3, "Ok", "",
                  [root |-> root,
                   bucket |-> b.bucket,
                   endpoint |-> UnwrapOr(b.endpoint, DEFAULT_GCS_ENDPOINT),
                   scope |-> UnwrapOr(b.scope, DEFAULT_GCS_SCOPE),
                   service_account |-> b.service_account,
                   credential |-> b.credential,
                   credential_path |-> b.credential_path,
                   client |-> UnwrapOr(b.http_client, <<"new">>),
                   customed_token_loader |-> b.customed_token_loader,
                   predefined_acl |-> b.predefined_acl,
                   default_storage_class |-> b.default_storage_class])

\* str::starts_with("http")
StartsWithHttp(s) == s # <<>> /\ s[1] \in {"http", "https"}

\* WebhdfsBuilder::build
WebhdfsBuild(b, client) ==
    LET root == NormalizeRoot(UnwrapOr(b.root, <<>>))
        endpoint == IF ~b.endpoint.some THEN WEBHDFS_DEFAULT_ENDPOINT
                    ELSE IF StartsWithHttp(b.endpoint.v) THEN b.endpoint.v
                    ELSE <<"http", "://">> \o b.endpoint.v
        auth == IF b.delegation.some
                THEN Some(<<"delegation_token=">> \o b.delegation.v)
                ELSE None
        b1 == [b EXCEPT !.root = None, !.endpoint = None, !.delegation = None]
    IN IF client.tag = "Err"
       THEN Built(b1, "Err", client.kind, NoAcc)
       ELSE Built(b1, "Ok", "",
                  [root |-> root,
                   endpoint |-> endpoint,
                   auth |-> auth,
                   client |-> <<"new">>,
                   root_checker |-> FALSE,
                   disable_list_batch |-> b.disable_list_batch])

\* Builder::build of either builder
Build(kind, b, client) ==
    IF kind = "gcs" THEN GcsBuild(b, client) ELSE WebhdfsBuild(b, client)

\* {:?} of a string and of an Option<String>
DebugStr(s) == <<"\"">> \o s \o <<"\"">>
DebugOption(opt) ==
    IF opt.some THEN <<"Some(">> \o DebugStr(opt.v) \o <<")">> ELSE <<"None">>

\* DebugStruct::field
Field(name, value) == [name |-> name, value |-> value]

\* a rendering of GcsBuilder that writes the credential out
GcsDebugShowsCredential(b) ==
    <<Field("root", DebugOption(b.root)),
      Field("bucket", DebugStr(b.bucket)),
      Field("endpoint", DebugOption(b.endpoint))>>
        \o (IF b.credential.some
            THEN <<Field("credentials", DebugOption(b.credential))>>
            ELSE <<>>)
        \o (IF b.predefined_acl.some
            THEN <<Field("predefined_acl", DebugOption(b.predefined_acl))>>
            ELSE <<>>)
        \o <<Field("default_storage_class",
                   DebugOption(b.default_storage_class))>>

\* impl Debug for GcsBuilder
GcsDebug(b) ==
    <<Field("root", DebugOption(b.root)),
      Field("bucket", DebugStr(b.bucket)),
      Field("endpoint", DebugOption(b.endpoint))>>
        \o (IF b.credential.some
            THEN <<Field("credentials", DebugStr(<<"<redacted>">>))>>
            ELSE <<>>)
        \o (IF b.predefined_acl.some
            THEN <<Field("predefined_acl", DebugOption(b.predefined_acl))>>
            ELSE <<>>)
        \o <<Field("default_storage_class",
                   DebugOption(b.default_storage_class))>>

\* impl Debug for WebhdfsBuilder; finish_non_exhaustive ends it with ".."
WebhdfsDebug(b) ==
    <<Field("root", DebugOption(b.root)),
      Field("endpoint", DebugOption(b.endpoint)),
      Field("..", <<>>)>>

\* the rendering build writes to the log
Debug(kind, b) == IF kind = "gcs" THEN GcsDebug(b) ELSE WebhdfsDebug(b)

\* no builder is in use
IdleBuilder ==
    [pc |-> "idle", kind |-> "gcs",
     map |-> [k \in {"root", "bucket", "endpoint", "credential", "scope",
                     "predefined_acl", "default_storage_class", "delegation",
                     "disable_list_batch", "foo"} |-> None],
     made |-> GcsBuilderDefault, b |-> GcsBuilderDefault, built |-> <<>>]

\* a map is about to be handed to from_map of one of the builders
BuilderInputs ==
    {[IdleBuilder EXCEPT !.pc = "map", !.kind = k, !.map = m] :
        k \in Backends, m \in Maps}

\* from_map makes the builder
BuilderFromMap ==
    /\ builder.pc = "map"
    /\ builder' = [builder EXCEPT !.pc = "made",
                                  !.made = FromMap(builder.kind, builder.map),
                                  !.b = FromMap(builder.kind, builder.map)]
    /\ UNCHANGED <<scheme, tasks, permit, backend, disable_list_batch, store,
                   root_checker, call>>

\* GcsBuilder::http_client
BuilderHttpClient ==
    /\ builder.pc = "made"
    /\ builder.kind = "gcs"
    /\ ~builder.b.http_client.some
    /\ builder' = [builder EXCEPT !.b.http_client = Some(<<"given">>)]
    /\ UNCHANGED <<scheme, tasks, permit, backend, disable_list_batch, store,
                   root_checker, call>>

\* GcsBuilder::bucket
BuilderBucket(v) ==
    /\ builder.pc = "made"
    /\ builder.kind = "gcs"
    /\ builder.b.bucket # v
    /\ builder' = [builder EXCEPT !.b.bucket = v]
    /\ UNCHANGED <<scheme, tasks, permit, backend, disable_list_batch, store,
                   root_checker, call>>

\* build is called on the builder
BuilderBuild ==
    /\ builder.pc = "made"
    /\ Len(builder.built) < MaxBuilds
    /\ \E client \in HttpClientNew :
          LET r == Build(builder.kind, builder.b, client)
          IN builder' = [builder EXCEPT
                            !.b = r.b,
                            !.built = Append(@, [from |-> builder.b,
                                                 log |-> Debug(builder.kind,
                                                               builder.b),
                                                 left |-> r.b,
                                                 tag |-> r.tag,
                                                 kind |-> r.kind,
                                                 acc |-> r.acc])]
    /\ UNCHANGED <<scheme, tasks, permit, backend, disable_list_batch, store,
                   root_checker, call>>

(***************************************************************************)
(* WebHDFS stat, await by await: the calls of several tasks on one         *)
(* instance interleave at every request they wait for.                     *)
(***************************************************************************)
Tasks == 1..NumTasks
NoTask == 0

\* a stat call of a task: where it stands, the root-check requests it has
\* sent, whether it found the cell set, how its own root check ended, and
\* whether it has sent the query for its target
IdleTask ==
    [pc |-> "idle", path |-> Root, found_set |-> FALSE, checks |-> <<>>,
     passed |-> FALSE, failed |-> FALSE, queried |-> FALSE, rp |-> Ok]

\* a semaphore that hands a permit to every caller
PermitAlwaysFree(holder) == TRUE

\* the semaphore of the OnceCell has its one permit
PermitFree(holder) == holder = NoTask

\* stat going on to its target whatever the root check returned
AfterCheckGoesOn(rp) == "target"

\* `.await?` on get_or_try_init: stat goes on to its target after a passed
\* check and returns the error of a failed one
AfterCheck(rp) == IF rp.tag = "Ok" THEN "target" ELSE "done"

\* stat is called; get_or_try_init first looks whether the cell is set
StatCall(t, p) ==
    /\ tasks[t].pc \in {"idle", "done"}
    /\ tasks' = [tasks EXCEPT ![t] =
                    [IdleTask EXCEPT !.pc = IF root_checker THEN "target"
                                            ELSE "wait",
                                     !.path = p,
                                     !.found_set = root_checker]]
    /\ UNCHANGED <<builder, scheme, permit, backend, disable_list_batch,
                   store, root_checker, call>>

\* get_or_try_init waits for the permit: it gets it when it is free, and
\* finds the cell set when another call's check has passed meanwhile
StatAcquire(t) ==
    /\ tasks[t].pc = "wait"
    /\ IF root_checker
       THEN /\ tasks' = [tasks EXCEPT ![t].pc = "target",
                                      ![t].found_set = TRUE]
            /\ UNCHANGED permit
       ELSE /\ PermitFree(permit)
            /\ permit' = t
            /\ tasks' = [tasks EXCEPT ![t].pc = "check"]
    /\ UNCHANGED <<builder, scheme, backend, disable_list_batch, store,
                   root_checker, call>>

\* the root check of a call ends: the cell is set if it passed, the permit
\* goes back, and the call goes on or returns
CheckEnds(t, req, rp) ==
    /\ root_checker' = OnceCellAfter(root_checker, rp)
    /\ permit' = NoTask
    /\ tasks' = [tasks EXCEPT ![t].pc = AfterCheck(rp),
                              ![t].checks = Append(@, req),
                              ![t].passed = (rp.tag = "Ok"),
                              ![t].failed = (rp.tag # "Ok"),
                              ![t].rp = rp]

\* check_root: the query for the root is answered
StatCheckRoot(t) ==
    /\ tasks[t].pc = "check"
    /\ \E resp \in GetMetadataResponses(store, Root) :
          LET req == Req("GETFILESTATUS", Root)
          IN CASE resp.status = 200 ->
                    CheckEnds(t, req,
                              IF resp.json # "ok" THEN Err("Unexpected")
                              ELSE IF resp.ty = "file" THEN Err("ConfigInvalid")
                              ELSE Ok)
               [] resp.status = 404 ->
                    /\ tasks' = [tasks EXCEPT ![t].pc = "mkdir",
                                              ![t].checks = Append(@, req)]
                    /\ UNCHANGED <<root_checker, permit>>
               [] OTHER -> CheckEnds(t, req, ParseError(resp.status))
    /\ UNCHANGED <<builder, scheme, backend, disable_list_batch, store, call>>

\* check_root: the request that creates the missing root is answered
StatCreateRoot(t) ==
    /\ tasks[t].pc = "mkdir"
    /\ \E resp \in CreateDirResponses("webhdfs") :
          /\ store' = AfterCreate("webhdfs", store, Root, resp)
          /\ CheckEnds(t, Req("PUT", Root), WebhdfsCreateDirRp(resp))
    /\ UNCHANGED <<builder, scheme, backend, disable_list_batch, call>>

\* stat: the query for the target is answered and the call returns
StatTarget(t) ==
    /\ tasks[t].pc = "target"
    /\ \E resp \in GetMetadataResponses(store, tasks[t].path) :
          tasks' = [tasks EXCEPT ![t].pc = "done",
                                 ![t].queried = TRUE,
                                 ![t].rp = WebhdfsStatRp(resp)]
    /\ UNCHANGED <<builder, scheme, permit, backend, disable_list_batch,
                   store, root_checker, call>>

\* no stat call is followed await by await
NoTasks ==
    /\ tasks = [t \in Tasks |-> IdleTask]
    /\ permit = NoTask

(***************************************************************************)
(* The machine.                                                            *)
(***************************************************************************)
NoCall == Call("none", Root, NoArgs, FALSE, <<>>, <<>>, Ok)

Init ==
    /\ builder = IdleBuilder
    /\ scheme = IdleScheme
    /\ NoTasks
    /\ backend \in Backends
    /\ disable_list_batch \in (IF backend = "webhdfs" THEN BOOLEAN ELSE {FALSE})
    /\ store \in Stores(backend)
    /\ root_checker = FALSE
    /\ call = NoCall

Next ==
    \/ \E p \in Paths : Delete(p)
    \/ \E p \in Paths, range \in Ranges : Read(p, range)
    \/ \E p \in Paths : CreateDir(p)
    \/ \E p \in Paths, args \in StatArgs : Stat(p, args)
    \/ \E p \in Paths, args \in ListArgs : List(p, args)
    \/ \E paths \in BatchInputs : Batch(paths)

Spec == Init /\ [][Next]_vars

\* the Accessor before any call, with no service behind it
NoAccessor ==
    /\ backend = "gcs"
    /\ disable_list_batch = FALSE
    /\ store = [p \in Paths |-> "none"]
    /\ root_checker = FALSE
    /\ call = NoCall

InitScheme ==
    /\ scheme \in SchemeInputs \cup SchemeVariants
    /\ builder = IdleBuilder
    /\ NoTasks
    /\ NoAccessor

NextScheme ==
    \/ SchemeFromStr
    \/ SchemeIntoStr
    \/ SchemeVariantIntoStr
    \/ SchemeStrFromStr

SpecScheme == InitScheme /\ [][NextScheme]_vars

InitBuilder ==
    /\ builder \in BuilderInputs
    /\ scheme = IdleScheme
    /\ NoTasks
    /\ NoAccessor

NextBuilder ==
    \/ BuilderFromMap
    \/ BuilderHttpClient
    \/ \E v \in {<<"b">>} : BuilderBucket(v)
    \/ BuilderBuild

SpecBuilder == InitBuilder /\ [][NextBuilder]_vars

\* a WebHDFS instance as build made it, and the service as it is then
InitStat ==
    /\ builder = IdleBuilder
    /\ scheme = IdleScheme
    /\ NoTasks
    /\ backend = "webhdfs"
    /\ disable_list_batch = FALSE
    /\ store \in Stores("webhdfs")
    /\ root_checker = FALSE
    /\ call = NoCall

NextStat ==
    \/ \E t \in Tasks, p \in Paths : StatCall(t, p)
    \/ \E t \in Tasks : StatAcquire(t)
    \/ \E t \in Tasks : StatCheckRoot(t)
    \/ \E t \in Tasks : StatCreateRoot(t)
    \/ \E t \in Tasks : StatTarget(t)

SpecStat == InitStat /\ [][NextStat]_vars

(***************************************************************************)
(* Properties.                                                             *)
(***************************************************************************)
\* the service answered the call's requests without a failure of its own
NoFault == \A i \in 1..Len(call.recv) : call.recv[i] \notin Faults

\* C1: a delete whose target does not exist on the service returns
\* success, never an Error, for GCS and for WebHDFS.
C1_DeleteMissingIsOk ==
    (call.op = "delete" /\ ~call.existed /\ NoFault) => call.rp.tag = "Ok"

\* C2: a read whose range lies wholly past the end of the object returns Ok
\* with an empty body, whichever signal the service uses for the condition
\* (416, or for WebHDFS a 403 whose body says the offset is out of the range).
C2_ReadPastEndIsEmptyOk ==
    (/\ call.op = "read"
     /\ call.existed
     /\ PastEnd(call.args.range)
     /\ Len(call.recv) = 1
     /\ call.recv[1] \in RangeSignals(backend))
        => (call.rp.tag = "Ok" /\ call.rp.body = "empty")

\* a WebHDFS read answered by the 403 out-of-range signal has returned
C2_Witness ==
    /\ backend = "webhdfs"
    /\ call.op = "read"
    /\ call.existed
    /\ PastEnd(call.args.range)
    /\ call.recv = <<RespMsg(403, OutOfRangeMsg)>>
    /\ call.rp.tag = "Ok"
    /\ call.rp.body = "empty"


\* C3: stat("/") returns Ok with DIR metadata in every state and for every
\* answer of the service, for GCS and for WebHDFS.
C3_StatRootIsDir ==
    (call.op = "stat" /\ call.path = Root)
        => (call.rp.tag = "Ok" /\ call.rp.meta.mode = "DIR")

\* the last request of the call asked for its own path and the service
\* answered that the path is not found
TargetNotFound ==
    /\ call.sent # <<>>
    /\ call.sent[Len(call.sent)].path = call.path
    /\ call.recv[Len(call.recv)].status = 404

\* C4: stat of a missing path that ends with the separator returns Ok with
\* DIR metadata, never NotFound; stat of a missing path without the trailing
\* separator returns an Error.  For GCS and for WebHDFS.
C4_StatMissingDirIsDir ==
    (call.op = "stat" /\ call.path # Root /\ ~call.existed /\ TargetNotFound)
        => IF EndsWithSlash(call.path)
           THEN call.rp.tag = "Ok" /\ call.rp.meta.mode = "DIR"
           ELSE call.rp.tag = "Err"

\* the aggregate response of a batch call is a success: status 200 with a
\* multipart content type
AggregateOk ==
    /\ call.op = "batch"
    /\ call.recv # <<>>
    /\ call.recv[1].status = 200
    /\ call.recv[1].ctype = Some(MultipartType)

\* C5: when the aggregate request succeeds, batch over N operations returns
\* exactly N results, the i-th carrying the i-th input path, for every
\* multipart response, also one with fewer or more than N parts.
C5_BatchOneResultPerOperation ==
    AggregateOk =>
        /\ call.rp.tag = "Ok"
        /\ Len(call.rp.results) = Len(call.args.ops)
        /\ \A i \in 1..Len(call.rp.results) :
              call.rp.results[i].path = call.args.ops[i]

\* the parts of the response answer each operation exactly once
WellFormedParts ==
    LET parts == call.recv[1].parts
    IN /\ Len(parts) = Len(call.args.ops)
       /\ \A i \in 1..Len(parts) : \E k \in 1..Len(parts) : parts[k].id = i

\* C6: the outcome batch pairs with each input path is the outcome of the
\* sub-operation the service performed on that path, whatever the order of
\* the parts in the multipart response.
C6_BatchOutcomeOfOwnPath ==
    (AggregateOk /\ WellFormedParts /\ call.rp.tag = "Ok") =>
        \A k \in 1..Len(call.recv[1].parts) :
            LET part == call.recv[1].parts[k]
            IN call.rp.results[part.id] =
                   BatchedResult(call.args.ops[part.id], part.status)

\* C7: an aggregate response that is not a success gives one Error and no
\* per-item results; an aggregate success gives Ok, and every part is
\* classified on its own: success or not-found is success at its index, any
\* other status an Error at its index only.
C7_BatchTwoFailureClasses ==
    (call.op = "batch" /\ call.recv # <<>>) =>
        IF call.recv[1].status # 200
        THEN call.rp.tag = "Err" /\ call.rp.results = <<>>
        ELSE AggregateOk =>
                /\ call.rp.tag = "Ok"
                /\ \A k \in 1..Len(call.rp.results) :
                      call.rp.results[k].rp.tag =
                          IF \/ IsSuccess(call.recv[1].parts[k].status)
                             \/ call.recv[1].parts[k].status = 404
                          THEN "Ok" ELSE "Err"

\* C8: a batch of more operations than the advertised batch_max_operations
\* returns Unsupported with the requested count in its context and sends no
\* request; a batch of at most that many is not refused and is sent.
C8_BatchOverLimitUnsupported ==
    call.op = "batch" =>
        IF Len(call.args.ops) > BatchMaxOperations
        THEN /\ call.rp.tag = "Err"
             /\ call.rp.kind = "Unsupported"
             /\ call.rp.ctx.some
             /\ call.rp.ctx.v[2] = Len(call.args.ops)
             /\ call.sent = <<>>
        ELSE /\ call.rp.kind # "Unsupported"
             /\ Len(call.sent) = 1

\* a batch of one operation more than the advertised maximum was refused
C8_Witness ==
    /\ call.op = "batch"
    /\ Len(call.args.ops) = BatchMaxOperations + 1
    /\ call.rp.kind = "Unsupported"
    /\ call.sent = <<>>

\* the Capability flags a call relies on
Uses(c) ==
    CASE c.op = "list" ->
            {"list"}
              \cup (IF c.args.recursive THEN {"list_with_recursive"}
                    ELSE {"list_without_recursive"})
              \cup (IF c.args.limit.some THEN {"list_with_limit"} ELSE {})
              \cup (IF c.args.start_after.some
                    THEN {"list_with_start_after"} ELSE {})
      [] c.op = "stat" ->
            {"stat"}
              \cup (IF c.args.if_match.some
                    THEN {"stat_with_if_match"} ELSE {})
              \cup (IF c.args.if_none_match.some
                    THEN {"stat_with_if_none_match"} ELSE {})
      [] c.op = "read" ->
            {"read"}
              \cup (IF IsFull(c.args.range) THEN {} ELSE {"read_with_range"})
      [] c.op \in {"delete", "create_dir", "batch"} -> {c.op}
      [] OTHER -> {}

\* C9: no call that uses an operation or option the backend's Capability
\* does not advertise is accepted: it returns Unsupported and nothing is
\* sent to the service.
C9_UnadvertisedCallRefused ==
    ~(Uses(call) \subseteq Capability(backend))
        => (call.rp.tag = "Err" /\ call.rp.kind = "Unsupported"
            /\ call.sent = <<>>)

\* C10: a list call given start_after = k hands k on to the listing it
\* starts, so that no entry lexicographically less than or equal to k is
\* yielded: the pager of GCS, which has fetched nothing yet, holds k, and
\* the first page of WebHDFS holds no entry up to k.
C10_ListStartAfterHandedOn ==
    (call.op = "list" /\ call.args.start_after.some /\ call.rp.tag = "Ok") =>
        IF backend = "gcs"
        THEN call.rp.pager.v.start_after = call.args.start_after
        ELSE \A i \in 1..Len(call.rp.pager.v.entries) :
                ~LexLeq(call.rp.pager.v.entries[i], call.args.start_after.v)

\* every response of the call parsed: none has a body that is not JSON
WellFormed == \A i \in 1..Len(call.recv) : call.recv[i].json # "bad"

\* C11: list of a path that has no entries (an empty directory, or for
\* WebHDFS a path reported as not found) returns Ok with a Pager that holds
\* no entries, never an Error, in the batch and the non-batch mode of WebHDFS.
C11_ListEmptyIsOk ==
    (/\ call.op = "list"
     /\ Children(store, TrimEndSlash(call.path)) = {}
     /\ backend = "webhdfs" => call.sent # <<>>
     /\ NoFault
     /\ WellFormed)
        => /\ call.rp.tag = "Ok"
           /\ call.rp.pager.some
           /\ call.rp.pager.v.entries = <<>>
           /\ call.rp.pager.v.remaining_entries = 0

\* a WebHDFS listing without batches of a path the service does not have
\* returned an empty pager
C11_Witness ==
    /\ backend = "webhdfs"
    /\ disable_list_batch
    /\ call.op = "list"
    /\ call.recv = <<Resp(404)>>
    /\ call.rp.tag = "Ok"
    /\ call.rp.pager.v.entries = <<>>

\* the service answered a create request by making the entry
Created(c) ==
    /\ Len(c.recv) = 1
    /\ c.recv[1] \notin Faults
    /\ c.recv[1].json # "bad"
    /\ backend = "webhdfs" => c.recv[1].boolean

\* C12: create_dir on a path that already exists as a directory returns
\* success and leaves the directory present, for GCS and for WebHDFS, so
\* repeated create_dir calls on one path all succeed.
C12_CreateDirIdempotent ==
    [][(/\ call'.op = "create_dir"
        /\ store[call'.path] = "dir"
        /\ Created(call'))
          => (call'.rp.tag = "Ok" /\ store'[call'.path] = "dir")]_vars

\* a WebHDFS create_dir of a directory that existed has returned Ok
C12_Witness ==
    /\ backend = "webhdfs"
    /\ call.op = "create_dir"
    /\ call.path = DirD
    /\ call.existed
    /\ call.rp.tag = "Ok"
    /\ store[DirD] = "dir"

\* the i-th request of the call failed and the call sent it again as its
\* j-th request
SentAgain(i, j) ==
    /\ i < j
    /\ call.sent[i] = call.sent[j]
    /\ ~IsSuccess(call.recv[i].status)

\* WebHDFS stat("/") found the root missing in its root check, created it,
\* and then queried the root as the target of the call
RootQueriedAsTarget(i, j) ==
    /\ backend = "webhdfs"
    /\ call.op = "stat"
    /\ call.path = Root
    /\ i = 1
    /\ j = Len(call.sent)
    /\ call.recv[1].status = 404
    /\ call.sent[2].op = "PUT"
    /\ IsSuccess(call.recv[2].status)

\* C13 as stated: within one call, a request that received a non-success
\* response or a transport error is never sent again by the call.
C13_NeverSentAgain ==
    \A i, j \in 1..Len(call.sent) : ~SentAgain(i, j)

\* C13 as amended: no call sends a failed request again, except that WebHDFS
\* stat("/") whose root check was answered 404 queries the root a second
\* time, as its target, after it has created the root.
C13_NoRetry ==
    \A i, j \in 1..Len(call.sent) :
        SentAgain(i, j) => RootQueriedAsTarget(i, j)

\* a WebHDFS stat whose target query failed after a passed root check has
\* returned the error without another request
C13_Witness ==
    /\ backend = "webhdfs"
    /\ call.op = "stat"
    /\ Len(call.sent) = 2
    /\ call.recv[2] \in Faults
    /\ call.rp.tag = "Err"

\* the fields of the Accessor instance
Instance == <<backend, disable_list_batch, root_checker>>

\* the call ran the root check and the check passed: its last request is the
\* target query and at least one request went before it
RootCheckPassed(c) ==
    /\ Len(c.sent) >= 2
    /\ c.sent[Len(c.sent)].op = "GETFILESTATUS"

\* the call sent the target query and nothing else
TargetQueryOnly(c) == c.sent = <<Req("GETFILESTATUS", c.path)>>

WellKnownName(s) == Matching(s) # {}

\* the string is the first name of the arm of from_str it matches
CanonicalName(s) ==
    \E i \in Matching(s) : Lit(FromStrArms[i].patterns[1]) = s

\* a lowercase string that from_str mapped to a well-known variant has been
\* converted back
RoundTripped ==
    /\ scheme.pc = "shown"
    /\ scheme.s = Lower(scheme.s)
    /\ scheme.parsed_s.v.variant # "Custom"

\* C15 as stated: for every lowercase string s that from_str maps to a
\* well-known variant, converting the variant back to a string yields s.
C15_RoundTripAnyName == RoundTripped => scheme.shown = scheme.s

\* C15 as amended: the round trip yields s itself when s is the first name
\* of its arm in from_str, and the first name of the arm when s is one of
\* the further names the arm accepts (azdfs, abfs, https, ftps, ipns).
C15_RoundTripCanonicalName ==
    RoundTripped =>
        /\ CanonicalName(scheme.s) => scheme.shown = scheme.s
        /\ \E i \in Matching(scheme.s) :
              scheme.shown = Lit(FromStrArms[i].patterns[1])

C15_Witness ==
    /\ RoundTripped
    /\ scheme.s = Lit("mysql")
    /\ scheme.shown = Lit("mysql")

\* C16: two strings that are equal after lowercasing are parsed to equal
\* Scheme values, and the string form of a Scheme that from_str returned is
\* lowercase.
C16_CaseInsensitiveCanonical ==
    /\ (scheme.pc \in {"parsed", "shown"} /\ Lower(scheme.s) = Lower(scheme.t))
          => scheme.parsed_s = scheme.parsed_t
    /\ scheme.pc = "shown" => scheme.shown = Lower(scheme.shown)

C16_Witness ==
    /\ scheme.pc = "shown"
    /\ scheme.s = Str("gcs", {1})
    /\ scheme.t = Lit("gcs")
    /\ scheme.parsed_t = OkScheme(Variant("Gcs"))
    /\ scheme.shown = Lit("gcs")

\* C17: from_str never returns an error; a string that names no variant is
\* accepted as Custom carrying the lowercased string, and converting that
\* Custom back to a string yields the lowercased input.
C17_UnknownIsCustom ==
    /\ scheme.pc \in {"parsed", "shown"} =>
          /\ scheme.parsed_s.tag = "Ok"
          /\ ~WellKnownName(Lower(scheme.s))
                => scheme.parsed_s.v = Custom(Lower(scheme.s))
    /\ (scheme.pc = "shown" /\ ~WellKnownName(Lower(scheme.s)))
          => scheme.shown = Lower(scheme.s)

C17_Witness ==
    /\ scheme.pc = "shown"
    /\ scheme.s = Str("myfs", {1})
    /\ scheme.parsed_s = OkScheme(Custom(Lit("myfs")))
    /\ scheme.shown = Lit("myfs")

\* C18: GCS build with an empty bucket returns a ConfigInvalid error and no
\* Accessor, whatever the other fields of the builder are; with a non-empty
\* bucket it never returns ConfigInvalid.
C18_GcsBuildValidatesBucket ==
    builder.kind = "gcs" =>
        \A i \in 1..Len(builder.built) :
            LET r == builder.built[i]
            IN IF r.from.bucket = <<>>
               THEN r.tag = "Err" /\ r.kind = "ConfigInvalid"
               ELSE r.kind # "ConfigInvalid"

\* a GCS builder holding a root, an endpoint, a credential and a client but
\* an empty bucket was built and gave ConfigInvalid
C18_Witness ==
    /\ builder.kind = "gcs"
    /\ Len(builder.built) = 1
    /\ builder.built[1].from.bucket = <<>>
    /\ builder.built[1].from.root.some
    /\ builder.built[1].from.endpoint.some
    /\ builder.built[1].from.credential.some
    /\ builder.built[1].from.http_client.some
    /\ builder.built[1].kind = "ConfigInvalid"

\* C19: after a successful build, a second build on the same builder does
\* not produce another Accessor: of the build calls made on one builder at
\* most one returns an Accessor.
C19_BuiltOnce ==
    \A i, j \in 1..Len(builder.built) :
        (builder.built[i].tag = "Ok" /\ builder.built[j].tag = "Ok") => i = j

\* the keys from_map of a builder reads
KnownKeys(kind) ==
    IF kind = "gcs"
    THEN {"root", "bucket", "endpoint", "credential", "scope",
          "predefined_acl", "default_storage_class"}
    ELSE {"root", "endpoint", "delegation", "disable_list_batch"}

\* the map without the keys the builder does not know
Known(kind, m) ==
    [k \in DOMAIN m |-> IF k \in KnownKeys(kind) THEN m[k] ELSE None]

\* C20: from_map never fails and ignores unknown keys: the builder made from
\* a map is the builder made from the map with its unrecognised keys
\* removed.
C20_FromMapIgnoresUnknownKeys ==
    builder.pc = "made" =>
        /\ DOMAIN builder.made = DOMAIN FromMap(builder.kind, IdleBuilder.map)
        /\ builder.made = FromMap(builder.kind, Known(builder.kind, builder.map))

C20_Witness ==
    /\ builder.pc = "made"
    /\ builder.kind = "webhdfs"
    /\ builder.map.foo.some
    /\ builder.map.bucket.some
    /\ builder.map.root = Some(<<"r">>)
    /\ builder.made.root = Some(<<"r">>)
    /\ builder.made.disable_list_batch

\* GCS answered the stat with a success status and a body that parsed
GcsStatParsed ==
    /\ backend = "gcs"
    /\ call.op = "stat"
    /\ Len(call.recv) = 1
    /\ IsSuccess(call.recv[1].status)
    /\ call.recv[1].json = "ok"

\* every field the body reports is well formed
ReportedWellFormed(obj) ==
    /\ obj.size # <<>> => IsNumber(obj.size)
    /\ obj.updated # <<>> => IsRfc3339(obj.updated)

\* C21: GCS stat of a success response yields Ok whichever optional fields
\* the response leaves out, and populates size, etag, content-md5,
\* content-type and last-modified only if the response reported them.
C21_OptionalFieldsAsReported ==
    (GcsStatParsed /\ ReportedWellFormed(call.recv[1].object)) =>
        LET obj == call.recv[1].object
            m == call.rp.meta
        IN /\ call.rp.tag = "Ok"
           /\ m.content_length.some => obj.size # <<>>
           /\ m.etag.some => obj.etag # <<>>
           /\ m.content_md5.some => obj.md5_hash # <<>>
           /\ m.content_type.some => obj.content_type # <<>>
           /\ m.last_modified.some => obj.updated # <<>>

\* the i-th response of the call has a success status and a malformed
\* payload: a body that does not parse as JSON, a size that is not a number
\* in GCS stat, no content type or one that is not multipart in GCS batch,
\* a false boolean for a WebHDFS create
Malformed(i) ==
    LET resp == call.recv[i]
    IN /\ IsSuccess(resp.status)
       /\ \/ resp.json = "bad"
          \/ /\ backend = "gcs" /\ call.op = "stat"
             /\ resp.json = "ok"
             /\ resp.object.size # <<>>
             /\ ~IsNumber(resp.object.size)
          \/ /\ backend = "gcs" /\ call.op = "batch"
             /\ \/ ~resp.ctype.some
                \/ ~StripPrefix(resp.ctype.v, "multipart/mixed; boundary=").some
          \/ /\ backend = "webhdfs" /\ call.sent[i].op = "PUT"
             /\ resp.json = "ok"
             /\ ~resp.boolean

\* C22: a response with a success status whose payload is malformed makes
\* the operation return an Error of kind Unexpected, for both backends.
C22_MalformedIsUnexpected ==
    \A i \in 1..Len(call.recv) :
        Malformed(i) => (call.rp.tag = "Err" /\ call.rp.kind = "Unexpected")

\* a GCS stat was answered 200 with a size that is not a number
C22_Witness ==
    /\ backend = "gcs"
    /\ call.op = "stat"
    /\ Len(call.recv) = 1
    /\ Malformed(1)
    /\ call.recv[1].json = "ok"
    /\ call.rp.kind = "Unexpected"

\* the service answered the request for the target of the call, a path
\* other than the root
ServedBelowRoot ==
    /\ call.op # "none"
    /\ call.path # Root
    /\ call.sent # <<>>
    /\ call.sent[Len(call.sent)].path = call.path
    /\ call.recv[Len(call.recv)] \notin Faults

\* C23: once build has returned a WebHDFS Accessor the root directory exists
\* on the backend before any operation is served: whenever the instance has
\* served a call on a path below the root, the root is a directory.
C23_RootExistsWhenServed ==
    (backend = "webhdfs" /\ ServedBelowRoot) => store[Root] = "dir"

\* the stat calls whose root check is in flight
InFlight == {t \in Tasks : tasks[t].pc \in {"check", "mkdir"}}

\* C24: the WebHDFS root check is single-flight and memoized: under every
\* interleaving of stat calls on one instance at most one root check is in
\* flight, none is in flight once one has passed, and a stat that finds the
\* check passed sends no root-check request.
C24_SingleFlightMemoized ==
    /\ Cardinality(InFlight) <= 1
    /\ root_checker => InFlight = {}
    /\ \A t \in Tasks : tasks[t].found_set => tasks[t].checks = <<>>

\* one call ran the root check, created the root and passed; the other call
\* found the check passed and queried only its target
C24_Witness ==
    /\ tasks[1].passed
    /\ Len(tasks[1].checks) = 2
    /\ tasks[2].found_set
    /\ tasks[2].pc = "done"
    /\ tasks[2].queried

\* the root check of the call ends in failure in this step
CheckFails(t) ==
    /\ tasks[t].pc \in {"check", "mkdir"}
    /\ tasks'[t].failed

\* C25: a failed root check is not remembered and ends its stat call with
\* the error, the target never queried; only a passed check sets the cell;
\* a stat called while the cell is unset goes to the root check, and a
\* target is queried only once a check has passed.
C25_FailedCheckNotCached ==
    [][\A t \in Tasks :
          /\ CheckFails(t) =>
                /\ root_checker' = FALSE
                /\ tasks'[t].pc = "done"
                /\ tasks'[t].rp.tag = "Err"
                /\ ~tasks'[t].queried
          /\ (root_checker' /\ ~root_checker) =>
                \E u \in InFlight : tasks'[u].passed
          /\ (tasks[t].pc \in {"idle", "done"} /\ tasks'[t].pc = "target")
                => root_checker
          /\ (tasks'[t].queried /\ ~tasks[t].queried) => root_checker]_vars

\* the root check of one call failed because the root is a file, and the
\* call returned ConfigInvalid; the next call ran the check again
C25_Witness ==
    /\ tasks[1].failed
    /\ tasks[1].pc = "done"
    /\ tasks[1].rp.kind = "ConfigInvalid"
    /\ tasks[2].pc = "done"
    /\ tasks[2].failed
    /\ tasks[2].checks = <<Req("GETFILESTATUS", Root)>>
    /\ ~root_checker

\* C26: a GCS build that fails with ConfigInvalid because the bucket is
\* empty leaves every field of the builder unchanged, so a build that
\* succeeds after the bucket was set yields an Accessor with the root that
\* was configured when the failed build was called.
C26_FailedBuildKeepsBuilder ==
    builder.kind = "gcs" =>
        \A i \in 1..Len(builder.built) :
            builder.built[i].kind = "ConfigInvalid" =>
                /\ builder.built[i].left = builder.built[i].from
                /\ \A j \in (i + 1)..Len(builder.built) :
                      builder.built[j].tag = "Ok" =>
                          builder.built[j].acc.root =
                              NormalizeRoot(UnwrapOr(builder.built[i].from.root,
                                                     <<>>))

\* C27: the string mapping is a bijection on the well-known variants:
\* parsing the string form of a variant returns the variant, and no other
\* variant has the same string form.
C27_VariantRoundTrip ==
    /\ scheme.pc = "reparsed" => scheme.parsed_s = OkScheme(scheme.variant)
    /\ scheme.pc \in {"named", "reparsed"} =>
          \A name \in DOMAIN IntoStrNames :
              IntoStr(Variant(name)) = scheme.shown
                  => Variant(name) = scheme.variant

\* values a secret may have
Secrets == {<<"c">>, <<"k">>, <<"t">>}

\* the builder with another value for its secret: the credential of a
\* GcsBuilder, the delegation token of a WebhdfsBuilder
WithSecret(kind, b, secret) ==
    IF kind = "gcs" THEN [b EXCEPT !.credential = Some(secret)]
    ELSE [b EXCEPT !.delegation = Some(secret)]

HasSecret(kind, b) ==
    IF kind = "gcs" THEN b.credential.some ELSE b.delegation.some

\* C28: the Debug rendering that build writes to the log does not depend on
\* secret values: a builder that differs from the one built only in the
\* value of its credential (GCS) or delegation token (WebHDFS) renders
\* identically.
C28_DebugHidesSecrets ==
    \A i \in 1..Len(builder.built) :
        LET r == builder.built[i]
        IN HasSecret(builder.kind, r.from) =>
              \A secret \in Secrets :
                  Debug(builder.kind, WithSecret(builder.kind, r.from, secret))
                      = r.log

\* a GcsBuilder holding a credential was built and its rendering, with the
\* credential redacted, was logged
C28_Witness ==
    /\ builder.kind = "gcs"
    /\ Len(builder.built) = 1
    /\ builder.built[1].from.credential = Some(<<"c">>)
    /\ \E k \in 1..Len(builder.built[1].log) :
          builder.built[1].log[k] =
              Field("credentials", DebugStr(<<"<redacted>">>))

====
